---- MODULE Spec2Model ----
(***************************************************************************)
(* PaintEngine (src/Core/PaintEngine.cpp): the fixed oscillator pool, its  *)
(* free list and per-slot lifecycle states, the double-buffered oscillator *)
(* arrays with their front/back indices and swap flag, and the two threads *)
(* that use them: the control thread (gesture API, clearCanvas, setActive) *)
(* and the audio thread (processBlock).  Beside the pool it keeps the      *)
(* stroke of the gesture in progress, the canvas regions that store ended  *)
(* strokes, the frequency range and sample rate, and what a block hands    *)
(* back in the output buffer.  The mapping between canvas positions and    *)
(* frequencies and the key of a canvas region are followed on their own,   *)
(* and so is the plug-in around the engine (src/Core/PluginProcessor.cpp): *)
(* its pause flag, its command queue and the stages of its processBlock.   *)
(*                                                                         *)
(* Threads interleave between the statements named in each action; a data  *)
(* race therefore shows as the set of results of those interleavings.      *)
(*                                                                         *)
(* PaintEngine.h is not part of src/.  What it declares (the envelope      *)
(* state methods, Oscillator::reset/isActive, the buffer getters, the      *)
(* spatial grid, MAX_OSCILLATORS) is modelled from spec.md and is marked   *)
(* so where it is defined.                                                 *)
(*                                                                         *)
(* Units: amplitude, pressure and influence are hundredths (100 = 1.0);    *)
(* frequency is whole Hz; time is clock ticks.                             *)
(***************************************************************************)
EXTENDS Integers, Sequences, FiniteSets, TLC

\* ---- bounds of the model ----
MAX_OSCILLATORS == 2     \* pool capacity (scaled down)
NumSamples == 2          \* samples per audio block
OptimizePeriod == 2      \* blocks between optimizeOscillatorPool runs (scaled down from 100)
MaxTime == 1             \* the millisecond clock stops advancing here
EnvelopeFull == 1        \* envelope value that stands for 1.0; one step per sample
GridCells == 2           \* canvas lattice points = spatial grid buckets
MaxCtlOps == 5           \* control-thread operations in one behaviour
MapSteps == 4            \* steps of the canvas height when the mapping is taken alone
MapTolerance == 1        \* steps a position may lose to the rounding to whole Hz
KeyHalfBits == 2         \* bits of a region coordinate (scaled down from 32)
ForgeVoices == 2         \* voices pauseAudioProcessing stops (scaled down from 8)
QueueCapacity == 3       \* commands the bounded command queue holds

\* ---- program constants ----
DefaultFrequency == 440
MinFrequencyHz == 20
MaxFrequencyHz == 20000
PressureLow == 10
PressureHigh == 50
InfluenceFloor == 1
RangeFloorHz == 1
RangeMinTopHz == 20000
RangeCeilingHz == 22000
FirstStrokeId == 1
DefaultSampleRate == 44100

RECURSIVE IntPow2(_)
IntPow2(n) == IF n = 0 THEN 1 ELSE 2 * IntPow2(n - 1)

Slots == 0 .. (MAX_OSCILLATORS - 1)
Buffers == {0, 1}
Cells == 0 .. (GridCells - 1)
\* the stroke points a gesture delivers: a full-pressure point on the first
\* lattice point and a low-pressure point on the last
Points == {[y |-> 0, pressure |-> 100], [y |-> GridCells - 1, pressure |-> PressureLow]}
\* pressures on both sides of the two thresholds of shouldAllocateNewOscillator
Pressures == {PressureLow, PressureLow + 1, PressureHigh, PressureHigh + 1}
AllPoints == [y : Cells, pressure : Pressures]
NoIndex == -1
\* the rates a host hands to prepareToPlay
SampleRates == {DefaultSampleRate, 48000}
\* the ranges handed to setFrequencyRange: the one of the constructor and one
\* that exceeds the limits on both sides
FrequencyRanges == {<<MinFrequencyHz, MaxFrequencyHz>>, <<0, RangeCeilingHz + 1>>}
\* stroke points whose pressure lies below, inside and above [0, 1]
WidePoints == [y : Cells, pressure : {0 - 10, 100, 100 + 50}]
FloatMax == MaxTime + 1
KeyHalf == IntPow2(KeyHalfBits)
KeyRange == KeyHalf * KeyHalf
\* the region coordinates of KeyHalfBits bits, negative ones included
RegionCoords == (0 - KeyHalf \div 2) .. (KeyHalf \div 2 - 1)
\* the mapping functions on their own: canvases of MapSteps steps, below and
\* above zero, and frequency ranges whose steps are whole Hz or not
MapBounds == {<<0, MapSteps>>, <<0 - MapSteps, 0>>, <<0 - 1, MapSteps - 1>>}
MapRanges == {<<1, 16>>, <<2, 32>>, <<1, 10>>, <<3, 30>>}

VARIABLES
    oscillatorStates,       \* [Slots -> EnhancedOscillatorState]
    oscillatorPools,        \* [Buffers -> [Slots -> Oscillator]]
    freeOscillatorIndices,  \* sequence of slot indices, top of the stack last
    frontBufferIndex,
    backBufferIndex,
    bufferSwapPending,
    isActive,
    spatialGrid,            \* [Cells -> sequence of slot indices]
    currentStroke,          \* TRUE while a stroke is open
    blockCounter,           \* the static counter of processBlock, mod OptimizePeriod
    now,                    \* juce::Time::getMillisecondCounterHiRes
    pcA,                    \* audio thread: where processBlock stands
    sample,                 \* audio thread: loop index of the sample loop
    currentPool,            \* audio thread: buffer bound to currentOscillatorPool
    savedFront,             \* audio thread: currentFront of swapBuffersIfPending
    pcC,                    \* control thread: where the running operation stands
    ctlIndex,               \* control thread: slot returned by allocateOscillator
    ctlPoint,               \* control thread: the stroke point being applied
    ctlBuf,                 \* control thread: buffer its getBackBuffer() reference names
    ctlNearby,              \* control thread: result of getNearbyOscillators
    ctlOps,                 \* number of control-thread operations so far
    allocVia,               \* history: branch the last allocateOscillator took
    swappedThisBlock,       \* history: the running block began with a swap
    rideAlong,              \* history: buffer written before a skipped swap request
    strokePoints,           \* positions of the points of the current stroke (<<>> without one)
    canvasRegions,          \* region key -> the strokes stored in the region
    nextStrokeId,
    canvasScan,             \* audio thread: strokes reached by updateCanvasOscillators
    buffer,                 \* content of the output buffer handed to processBlock
    returnedInactive,       \* history: the last processBlock call found isActive false
    silenced,               \* history: clearCanvas has run and no gesture has written since
    minFrequency,
    maxFrequency,
    sampleRate,
    canvasBottom,           \* setCanvasRegion: the y range of the canvas
    canvasTop,
    useLogFrequencyScale,
    roundTrip,              \* a position, its frequency and the position of that frequency
    regionKeys,             \* two region cells and the keys getRegionKey gave them
    audioProcessingPaused,  \* the plug-in's pause flag
    commandQueue,           \* commands pushed and not yet processed, oldest first
    pcP,                    \* the plug-in's processBlock: "idle", "commands" or "render"
    pluginBlock,            \* the last plug-in block: its output and the commands it processed
    resumeStage             \* the first block after resumeAudioProcessing: awaited, running, done

vars == <<oscillatorStates, oscillatorPools, freeOscillatorIndices, frontBufferIndex,
          backBufferIndex, bufferSwapPending, isActive, spatialGrid, currentStroke,
          blockCounter, now, pcA, sample, currentPool, savedFront, pcC, ctlIndex,
          ctlPoint, ctlBuf, ctlNearby, ctlOps, allocVia, swappedThisBlock, rideAlong,
          strokePoints, canvasRegions, nextStrokeId, canvasScan, buffer, returnedInactive,
          silenced, minFrequency, maxFrequency, sampleRate, canvasBottom, canvasTop,
          useLogFrequencyScale, roundTrip, regionKeys, audioProcessingPaused,
          commandQueue, pcP, pluginBlock, resumeStage>>

audioVars == <<pcA, sample, currentPool, savedFront>>
ctlVars == <<pcC, ctlIndex, ctlPoint, ctlBuf, ctlNearby>>
poolVars == <<oscillatorStates, oscillatorPools, freeOscillatorIndices>>
swapVars == <<frontBufferIndex, backBufferIndex, bufferSwapPending>>
strokeVars == <<strokePoints, canvasRegions, nextStrokeId>>
outVars == <<buffer, returnedInactive>>
mapVars == <<canvasBottom, canvasTop, useLogFrequencyScale, roundTrip, regionKeys>>
pluginVars == <<audioProcessingPaused, commandQueue, pcP, pluginBlock, resumeStage>>
configVars == <<minFrequency, maxFrequency, sampleRate, mapVars, pluginVars>>

\* ---- data ----
DefaultState ==
    [envelopePhase |-> "Inactive", envelopeValue |-> 0, targetFrequency |-> DefaultFrequency,
     targetAmplitude |-> 0, lastUsedTime |-> 0, inUse |-> FALSE]

DefaultOscillator == [frequency |-> DefaultFrequency, targetAmplitude |-> 0]

NoPoint == [y |-> 0, pressure |-> 0]

NoRegionKeys == [stage |-> "none", a |-> <<0, 0>>, b |-> <<0, 0>>, keyA |-> 0, keyB |-> 0]

NoPluginBlock == [output |-> "none", processed |-> <<>>]

\* the commands of the queue: StopPlayback of a voice, and a paint command
StopCommands(paused) ==
    [k \in 1 .. ForgeVoices |-> [id |-> "StopPlayback", slot |-> k - 1, whilePaused |-> paused]]
Commands(paused) ==
    {StopCommands(paused)[k] : k \in 1 .. ForgeVoices}
        \cup {[id |-> "PaintCommand", slot |-> 0, whilePaused |-> paused]}

\* commandQueue after push for each command of cmds in turn: a push on a
\* full queue fails and the command is not queued
pushAll(queue, cmds) ==
    LET all == queue \o cmds
    IN  IF Len(all) <= QueueCapacity THEN all ELSE SubSeq(all, 1, QueueCapacity)

NoRoundTrip == [stage |-> "none", y |-> 0, frequency |-> 0, back |-> 0]

\* ---- strokes and canvas regions ----
\* canvasRegions before the first region is created
NoRegions == [k \in Cells |-> [present |-> FALSE, strokes |-> <<>>]]

\* getOrCreateRegion's cell: one region per lattice point
regionIndexY(y) == y

\* a | b on words of n bits
RECURSIVE BitOr(_, _, _)
BitOr(a, b, n) ==
    IF n = 0 THEN 0
    ELSE (IF a % 2 = 1 \/ b % 2 = 1 THEN 1 ELSE 0) + 2 * BitOr(a \div 2, b \div 2, n - 1)

\* static_cast<int64>(regionX) << 32, as the unsigned value of the key's
\* bits; the shift of a negative value is undefined, any word may result
ShiftedRegionX(regionX) ==
    IF regionX >= 0 THEN {(regionX * KeyHalf) % KeyRange} ELSE 0 .. KeyRange - 1

\* the values getRegionKey can return: the shifted regionX or-ed with the
\* sign-extended regionY
getRegionKey(regionX, regionY) ==
    {BitOr(shifted, regionY % KeyRange, 2 * KeyHalfBits) : shifted \in ShiftedRegionX(regionX)}

Min(a, b) == IF a < b THEN a ELSE b
Max(a, b) == IF a > b THEN a ELSE b
jlimit(lo, hi, v) == IF v < lo THEN lo ELSE IF v > hi THEN hi ELSE v

\* ---- EnhancedOscillatorState (PaintEngine.h) ----
StateIsActive(s) == s.envelopePhase # "Inactive"

activate(s) == [s EXCEPT !.envelopePhase = "Attack", !.inUse = TRUE]

release(s) == [s EXCEPT !.envelopePhase = "Release"]

updateEnvelope(s) ==
    CASE s.envelopePhase = "Attack" ->
            LET v == Min(s.envelopeValue + 1, EnvelopeFull)
            IN  [s EXCEPT !.envelopeValue = v,
                          !.envelopePhase = IF v >= EnvelopeFull THEN "Sustain" ELSE "Attack"]
      [] s.envelopePhase = "Release" ->
            LET v == Max(s.envelopeValue - 1, 0)
            IN  [s EXCEPT !.envelopeValue = v,
                          !.envelopePhase = IF v <= 0 THEN "Inactive" ELSE "Release"]
      [] OTHER -> s

\* ---- Oscillator ----
OscIsActive(o) == o.targetAmplitude > 0

OscReset(o) == [o EXCEPT !.targetAmplitude = 0]

setParameters(o, params) ==
    [o EXCEPT !.frequency = params.frequency,
              !.targetAmplitude = jlimit(0, 100, params.amplitude)]

\* ---- setFrequencyRange: the pair (minFrequency, maxFrequency) it stores ----
setFrequencyRange(minHz, maxHz) ==
    LET lo == jlimit(RangeFloorHz, RangeMinTopHz, minHz)
    IN  [min |-> lo, max |-> jlimit(lo + 1, RangeCeilingHz, maxHz)]

\* ---- coordinate mapping (logarithmic scale, lattice point y of GridCells) ----
RECURSIVE IntPow(_, _)
IntPow(b, e) == IF e = 0 THEN 1 ELSE b * IntPow(b, e - 1)

IntRoot(n, k) ==
    IF k <= 1 THEN n
    ELSE CHOOSE r \in 0 .. n :
            IntPow(r, k) <= n /\ n < IntPow(r + 1, k)

\* the position of y between canvasBottom and canvasTop, in steps of the
\* canvas height (clampedY as a count of steps)
clampedY(y) == jlimit(0, canvasTop - canvasBottom, y - canvasBottom)

\* exp(logMin + clampedY * (logMax - logMin)), in whole Hz, or the linear
\* interpolation
canvasYToFrequency(y) ==
    LET height == canvasTop - canvasBottom
        steps == clampedY(y)
    IN  IF useLogFrequencyScale
        THEN IntRoot(IntPow(minFrequency, height - steps) * IntPow(maxFrequency, steps), height)
        ELSE minFrequency + (steps * (maxFrequency - minFrequency)) \div height

\* (log f - logMin) / (logMax - logMin) as a count of whole steps
LogPosition(f, height) ==
    CHOOSE k \in 0 .. height :
        /\ IntPow(maxFrequency, k) * IntPow(minFrequency, height - k) <= IntPow(f, height)
        /\ \/ k = height
           \/ IntPow(maxFrequency, k + 1) * IntPow(minFrequency, height - k - 1)
                  > IntPow(f, height)

\* variant: the inverse is linear whatever the scale
frequencyToCanvasY_AlwaysLinear(frequency) ==
    LET height == canvasTop - canvasBottom
        clampedFreq == jlimit(minFrequency, maxFrequency, frequency)
    IN  canvasBottom + ((clampedFreq - minFrequency) * height) \div (maxFrequency - minFrequency)

frequencyToCanvasY(frequency) ==
    LET height == canvasTop - canvasBottom
        clampedFreq == jlimit(minFrequency, maxFrequency, frequency)
    IN  canvasBottom +
            (IF useLogFrequencyScale
             THEN LogPosition(clampedFreq, height)
             ELSE ((clampedFreq - minFrequency) * height) \div (maxFrequency - minFrequency))

strokePointToAudioParams(point) ==
    [frequency |-> canvasYToFrequency(point.y), amplitude |-> point.pressure]

\* ---- spatial grid (PaintEngine.h): one bucket per lattice point ----
getCellIndex(y) == y

getNearbyOscillators(y) == spatialGrid[getCellIndex(y)]

\* ---- allocation policy ----
\* variant: the thresholds are inclusive
shouldAllocateNewOscillator_Inclusive(point) ==
    \/ (point.pressure >= PressureLow /\ freeOscillatorIndices # <<>>)
    \/ point.pressure >= PressureHigh

shouldAllocateNewOscillator(point) ==
    \/ (point.pressure > PressureLow /\ freeOscillatorIndices # <<>>)
    \/ point.pressure > PressureHigh

RECURSIVE ScanForReplacement(_, _, _)
ScanForReplacement(i, oldestIndex, oldestTime) ==
    IF i >= MAX_OSCILLATORS THEN oldestIndex
    ELSE IF oscillatorStates[i].envelopePhase \in {"Release", "Inactive"} THEN i
    ELSE IF oscillatorStates[i].lastUsedTime < oldestTime
         THEN ScanForReplacement(i + 1, i, oscillatorStates[i].lastUsedTime)
         ELSE ScanForReplacement(i + 1, oldestIndex, oldestTime)

\* variant: the running minimum starts at 0 instead of FLT_MAX
findBestOscillatorForReplacement_ZeroSentinel == ScanForReplacement(0, NoIndex, 0)

\* variant: the comparison of the scan is <= instead of <
RECURSIVE ScanTiesToLast(_, _, _)
ScanTiesToLast(i, oldestIndex, oldestTime) ==
    IF i >= MAX_OSCILLATORS THEN oldestIndex
    ELSE IF oscillatorStates[i].envelopePhase \in {"Release", "Inactive"} THEN i
    ELSE IF oscillatorStates[i].lastUsedTime <= oldestTime
         THEN ScanTiesToLast(i + 1, i, oscillatorStates[i].lastUsedTime)
         ELSE ScanTiesToLast(i + 1, oldestIndex, oldestTime)

findBestOscillatorForReplacement_TiesToLast == ScanTiesToLast(0, NoIndex, FloatMax)

findBestOscillatorForReplacement == ScanForReplacement(0, NoIndex, FloatMax)

\* variant: a full pool is reported as a failure instead of stealing
allocateOscillator_FailsWhenFull ==
    IF freeOscillatorIndices # <<>>
    THEN [index |-> freeOscillatorIndices[Len(freeOscillatorIndices)],
          free |-> SubSeq(freeOscillatorIndices, 1, Len(freeOscillatorIndices) - 1),
          via |-> "free"]
    ELSE [index |-> NoIndex, free |-> freeOscillatorIndices, via |-> "oldest"]

\* the index returned, the free list left behind, and the branch taken
allocateOscillator ==
    IF freeOscillatorIndices # <<>>
    THEN [index |-> freeOscillatorIndices[Len(freeOscillatorIndices)],
          free |-> SubSeq(freeOscillatorIndices, 1, Len(freeOscillatorIndices) - 1),
          via |-> "free"]
    ELSE [index |-> findBestOscillatorForReplacement,
          free |-> freeOscillatorIndices,
          via |-> IF \E i \in Slots : oscillatorStates[i].envelopePhase \in {"Release", "Inactive"}
                  THEN "winding" ELSE "oldest"]

\* ---- influence blending ----
\* lattice points are at least three INFLUENCE_RADIUS apart and x = 0, so
\* exp(-(d/R)^2) is 1 on the point of the oscillator and below 0.01 elsewhere
calculateDistance(states, index, point) ==
    IF states[index].targetFrequency = canvasYToFrequency(point.y) THEN 0 ELSE 1

calculateInfluence(distance, pressure) ==
    jlimit(0, 100, IF distance = 0 THEN pressure ELSE 0)

Blend(old, new, influence) == (old * (100 - influence) + new * influence) \div 100

\* updateOscillatorWithInfluence on the pair <<states, pool>>, pool being the
\* array its getBackBuffer() reference names
updateOscillatorWithInfluence(sp, index, point, time) ==
    LET states == sp[1]
        pool == sp[2]
        params == strokePointToAudioParams(point)
        influence == calculateInfluence(calculateDistance(states, index, point), point.pressure)
        blended == [frequency |-> jlimit(MinFrequencyHz, MaxFrequencyHz,
                                     Blend(states[index].targetFrequency, params.frequency, influence)),
                    amplitude |-> jlimit(0, 100,
                                     Blend(states[index].targetAmplitude, params.amplitude, influence))]
    IN  IF index < 0 \/ index >= MAX_OSCILLATORS THEN sp
        ELSE IF ~StateIsActive(states[index]) THEN sp
        ELSE IF influence < InfluenceFloor THEN sp
        ELSE << [states EXCEPT ![index] = [@ EXCEPT !.targetFrequency = blended.frequency,
                                                    !.targetAmplitude = blended.amplitude,
                                                    !.lastUsedTime = time]],
                [pool EXCEPT ![index] = setParameters(@, blended)] >>

RECURSIVE InfluenceAll(_, _, _, _)
InfluenceAll(sp, nearby, point, time) ==
    IF nearby = <<>> THEN sp
    ELSE InfluenceAll(updateOscillatorWithInfluence(sp, Head(nearby), point, time),
                      Tail(nearby), point, time)

\* ---- optimizeOscillatorPool: compaction of one oscillator array ----
RECURSIVE Compact(_, _, _)
Compact(pool, i, compactIndex) ==
    IF i >= MAX_OSCILLATORS THEN pool
    ELSE IF OscIsActive(pool[i])
         THEN IF compactIndex # i
              THEN Compact([pool EXCEPT ![compactIndex] = pool[i], ![i] = OscReset(pool[i])],
                           i + 1, compactIndex + 1)
              ELSE Compact(pool, i + 1, compactIndex + 1)
         ELSE Compact(pool, i + 1, compactIndex)

\* variant: the envelope of a releasing slot is not advanced
RenderSlot_HoldsRelease(s, time) ==
    IF s.envelopePhase = "Release" THEN [s EXCEPT !.lastUsedTime = time]
    ELSE IF StateIsActive(s) THEN [updateEnvelope(s) EXCEPT !.lastUsedTime = time]
    ELSE IF s.envelopePhase = "Inactive" /\ s.inUse THEN [s EXCEPT !.inUse = FALSE]
    ELSE s

\* variant: a releasing slot is reclaimed before its envelope has finished
RenderSlot_EarlyClear(s, time) ==
    IF s.envelopePhase \in {"Release", "Inactive"} /\ s.inUse THEN [s EXCEPT !.inUse = FALSE]
    ELSE IF StateIsActive(s) THEN [updateEnvelope(s) EXCEPT !.lastUsedTime = time]
    ELSE s

\* Oscillator::getSample: the magnitude of the waveform, its amplitude
\* having settled on the target
getSample(o) == o.targetAmplitude

\* envelopedSample of a slot in the sample loop: nonzero when the slot feeds
\* the mix
envelopedSample(s, o) ==
    IF StateIsActive(s) THEN getSample(o) * updateEnvelope(s).envelopeValue ELSE 0

\* ---- the sample loop body over all slots, for one sample ----
RenderSlot(s, time) ==
    IF StateIsActive(s) THEN [updateEnvelope(s) EXCEPT !.lastUsedTime = time]
    ELSE IF s.envelopePhase = "Inactive" /\ s.inUse THEN [s EXCEPT !.inUse = FALSE]
    ELSE s

Reclaimed(s) == ~StateIsActive(s) /\ s.envelopePhase = "Inactive" /\ s.inUse

RECURSIVE ReclaimedFrom(_)
ReclaimedFrom(i) ==
    IF i >= MAX_OSCILLATORS THEN <<>>
    ELSE (IF Reclaimed(oscillatorStates[i]) THEN <<i>> ELSE <<>>) \o ReclaimedFrom(i + 1)

\* ---- buffer swap handshake ----
\* requestBufferSwap: compare_exchange_strong(false -> true)
requestBufferSwap(pending) == TRUE

\* ---- stroke bookkeeping ----
\* variant: the loop over the points of the stroke does not stop at the
\* first region, the stroke goes to the region of every point
\* canvasRegions after endStroke: the finalized stroke goes to the region of
\* its first point, which is created if it does not exist
endStrokeRegions_EveryRegion ==
    IF ~currentStroke \/ strokePoints = <<>> THEN canvasRegions
    ELSE LET stroke == [strokeId |-> nextStrokeId - 1, size |-> Len(strokePoints),
                        isFinalized |-> TRUE]
         IN  [k \in Cells |->
                  IF \E n \in 1 .. Len(strokePoints) :
                        k \in getRegionKey(0, regionIndexY(strokePoints[n]))
                  THEN [present |-> TRUE, strokes |-> Append(canvasRegions[k].strokes, stroke)]
                  ELSE canvasRegions[k]]

endStrokeRegions ==
    IF ~currentStroke \/ strokePoints = <<>> THEN canvasRegions
    ELSE LET key == CHOOSE k \in getRegionKey(0, regionIndexY(strokePoints[1])) : TRUE
             stroke == [strokeId |-> nextStrokeId - 1, size |-> Len(strokePoints),
                        isFinalized |-> TRUE]
         IN  [canvasRegions EXCEPT ![key] =
                  [present |-> TRUE, strokes |-> Append(@.strokes, stroke)]]

RECURSIVE RegionStrokes(_)
RegionStrokes(k) ==
    IF k >= GridCells THEN 0
    ELSE Len(canvasRegions[k].strokes) + RegionStrokes(k + 1)

\* updateCanvasOscillators: the stroke objects it reaches through
\* currentStroke and canvasRegions
updateCanvasOscillators == (IF currentStroke THEN 1 ELSE 0) + RegionStrokes(0)

\* ---- initial state: PaintEngine::PaintEngine ----
EngineInit ==
    /\ oscillatorStates = [i \in Slots |-> DefaultState]
    /\ oscillatorPools = [b \in Buffers |-> [i \in Slots |-> DefaultOscillator]]
    /\ freeOscillatorIndices = [k \in 1 .. MAX_OSCILLATORS |-> k - 1]
    /\ frontBufferIndex = 0
    /\ backBufferIndex = 1
    /\ bufferSwapPending = FALSE
    /\ isActive \in BOOLEAN
    /\ spatialGrid = [c \in Cells |-> <<>>]
    /\ currentStroke = FALSE
    /\ blockCounter = 0
    /\ now = 0
    /\ pcA = "idle"
    /\ sample = 0
    /\ currentPool = 0
    /\ savedFront = 0
    /\ pcC = "idle"
    /\ ctlIndex = NoIndex
    /\ ctlPoint = NoPoint
    /\ ctlBuf = 0
    /\ ctlNearby = <<>>
    /\ ctlOps = 0
    /\ allocVia = "none"
    /\ swappedThisBlock = FALSE
    /\ rideAlong = NoIndex
    /\ strokePoints = <<>>
    /\ canvasRegions = NoRegions
    /\ nextStrokeId = FirstStrokeId
    /\ canvasScan = NoIndex
    /\ buffer = "stale"
    /\ returnedInactive = FALSE
    /\ silenced = "no"
    /\ sampleRate = DefaultSampleRate
    /\ roundTrip = NoRoundTrip
    /\ regionKeys = NoRegionKeys
    /\ audioProcessingPaused = FALSE
    /\ commandQueue = <<>>
    /\ pcP = "idle"
    /\ pluginBlock = NoPluginBlock
    /\ resumeStage = "none"

\* setFrequencyRange(20, 20000) and setCanvasRegion: the canvas is one step
\* of the lattice high
Init ==
    /\ EngineInit
    /\ minFrequency = setFrequencyRange(MinFrequencyHz, MaxFrequencyHz).min
    /\ maxFrequency = setFrequencyRange(MinFrequencyHz, MaxFrequencyHz).max
    /\ canvasBottom = 0
    /\ canvasTop = GridCells - 1
    /\ useLogFrequencyScale = TRUE

\* the locals of a finished control operation
ctlDone ==
    /\ ctlIndex' = NoIndex
    /\ ctlPoint' = NoPoint
    /\ ctlBuf' = 0
    /\ ctlNearby' = <<>>

\* ---- control thread ----
SetActive(b) ==
    /\ pcC = "idle"
    /\ ctlOps < MaxCtlOps
    /\ ctlOps' = ctlOps + 1
    /\ isActive' = b
    /\ UNCHANGED <<poolVars, swapVars, spatialGrid, currentStroke, blockCounter, now,
                   audioVars, ctlVars, allocVia, swappedThisBlock, rideAlong,
                   strokeVars, canvasScan, outVars, silenced, configVars>>

\* variant: the stroke in progress is dropped, not ended
BeginStroke_DropsOpenStroke(point) ==
    /\ pcC = "idle"
    /\ ctlOps < MaxCtlOps
    /\ ctlOps' = ctlOps + 1
    /\ canvasRegions' = canvasRegions
    /\ currentStroke' = TRUE
    /\ strokePoints' = <<point.y>>
    /\ nextStrokeId' = nextStrokeId + 1
    /\ UNCHANGED <<poolVars, swapVars, isActive, spatialGrid, blockCounter, now,
                   audioVars, ctlVars, allocVia, swappedThisBlock, rideAlong,
                   canvasScan, outVars, silenced, configVars>>

\* beginStroke: an open stroke is ended first
BeginStroke(point) ==
    /\ pcC = "idle"
    /\ ctlOps < MaxCtlOps
    /\ ctlOps' = ctlOps + 1
    /\ canvasRegions' = endStrokeRegions
    /\ currentStroke' = TRUE
    /\ strokePoints' = <<point.y>>
    /\ nextStrokeId' = nextStrokeId + 1
    /\ UNCHANGED <<poolVars, swapVars, isActive, spatialGrid, blockCounter, now,
                   audioVars, ctlVars, allocVia, swappedThisBlock, rideAlong,
                   canvasScan, outVars, silenced, configVars>>

EndStroke ==
    /\ pcC = "idle"
    /\ ctlOps < MaxCtlOps
    /\ ctlOps' = ctlOps + 1
    /\ canvasRegions' = endStrokeRegions
    /\ currentStroke' = FALSE
    /\ strokePoints' = <<>>
    /\ UNCHANGED <<poolVars, swapVars, isActive, spatialGrid, blockCounter, now,
                   audioVars, ctlVars, allocVia, swappedThisBlock, rideAlong,
                   nextStrokeId, canvasScan, outVars, silenced, configVars>>

\* variant: a point that arrives without a stroke in progress is dropped
UpdateStroke_NoAutoStart(point) ==
    /\ pcC = "idle"
    /\ ctlOps < MaxCtlOps
    /\ ctlOps' = ctlOps + 1
    /\ IF ~currentStroke
       THEN UNCHANGED <<currentStroke, strokePoints, nextStrokeId, freeOscillatorIndices,
                        ctlVars, allocVia>>
       ELSE /\ UNCHANGED <<currentStroke, nextStrokeId>>
            /\ strokePoints' = Append(strokePoints, point.y)
            /\ IF getNearbyOscillators(point.y) = <<>> \/ shouldAllocateNewOscillator(point)
               THEN LET r == allocateOscillator
                    IN  /\ freeOscillatorIndices' = r.free
                        /\ allocVia' = r.via
                        /\ pcC' = "activate"
                        /\ ctlIndex' = r.index
                        /\ ctlPoint' = point
                        /\ ctlBuf' = backBufferIndex
                        /\ UNCHANGED ctlNearby
               ELSE /\ pcC' = "influence"
                    /\ ctlNearby' = getNearbyOscillators(point.y)
                    /\ ctlPoint' = point
                    /\ ctlBuf' = backBufferIndex
                    /\ UNCHANGED <<freeOscillatorIndices, ctlIndex, allocVia>>
    /\ UNCHANGED <<oscillatorStates, oscillatorPools, swapVars, isActive, spatialGrid,
                   blockCounter, now, audioVars, swappedThisBlock, rideAlong,
                   canvasRegions, canvasScan, outVars, silenced, configVars>>

\* updateStroke up to the call of activateOscillator with the index that
\* allocateOscillator returned, or up to the loop over the nearby indices
UpdateStroke(point) ==
    /\ pcC = "idle"
    /\ ctlOps < MaxCtlOps
    /\ ctlOps' = ctlOps + 1
    /\ IF ~currentStroke
       THEN /\ currentStroke' = TRUE
            /\ strokePoints' = <<point.y>>
            /\ nextStrokeId' = nextStrokeId + 1
            /\ UNCHANGED <<freeOscillatorIndices, ctlVars, allocVia>>
       ELSE /\ UNCHANGED <<currentStroke, nextStrokeId>>
            /\ strokePoints' = Append(strokePoints, point.y)
            /\ IF getNearbyOscillators(point.y) = <<>> \/ shouldAllocateNewOscillator(point)
               THEN LET r == allocateOscillator
                    IN  /\ freeOscillatorIndices' = r.free
                        /\ allocVia' = r.via
                        /\ pcC' = "activate"
                        /\ ctlIndex' = r.index
                        /\ ctlPoint' = point
                        /\ ctlBuf' = backBufferIndex
                        /\ UNCHANGED ctlNearby
               ELSE /\ pcC' = "influence"
                    /\ ctlNearby' = getNearbyOscillators(point.y)
                    /\ ctlPoint' = point
                    /\ ctlBuf' = backBufferIndex
                    /\ UNCHANGED <<freeOscillatorIndices, ctlIndex, allocVia>>
    /\ UNCHANGED <<oscillatorStates, oscillatorPools, swapVars, isActive, spatialGrid,
                   blockCounter, now, audioVars, swappedThisBlock, rideAlong,
                   canvasRegions, canvasScan, outVars, silenced, configVars>>

\* variant: the envelope starts at Sustain
ActivateOscillator_NoAttack ==
    /\ pcC = "activate"
    /\ IF ctlIndex < 0 \/ ctlIndex >= MAX_OSCILLATORS
       THEN UNCHANGED <<oscillatorStates, oscillatorPools, spatialGrid>>
       ELSE LET params == strokePointToAudioParams(ctlPoint)
            IN  /\ oscillatorStates' =
                     [oscillatorStates EXCEPT ![ctlIndex] =
                         [activate(@) EXCEPT !.envelopePhase = "Sustain",
                                             !.targetFrequency = params.frequency,
                                             !.targetAmplitude = params.amplitude,
                                             !.lastUsedTime = now]]
                /\ oscillatorPools' =
                     [oscillatorPools EXCEPT ![ctlBuf][ctlIndex] = setParameters(@, params)]
                /\ spatialGrid' =
                     [spatialGrid EXCEPT ![getCellIndex(ctlPoint.y)] = Append(@, ctlIndex)]
    /\ pcC' = "idle"
    /\ ctlDone
    /\ allocVia' = "none"
    /\ silenced' = "no"
    /\ UNCHANGED <<freeOscillatorIndices, swapVars, isActive, currentStroke, blockCounter,
                   now, audioVars, ctlOps, swappedThisBlock, rideAlong,
                   strokeVars, canvasScan, outVars, configVars>>

\* activateOscillator (nothing for an index out of range), then
\* assignOscillatorToGrid
ActivateOscillator ==
    /\ pcC = "activate"
    /\ IF ctlIndex < 0 \/ ctlIndex >= MAX_OSCILLATORS
       THEN UNCHANGED <<oscillatorStates, oscillatorPools, spatialGrid>>
       ELSE LET params == strokePointToAudioParams(ctlPoint)
            IN  /\ oscillatorStates' =
                     [oscillatorStates EXCEPT ![ctlIndex] =
                         [activate(@) EXCEPT !.targetFrequency = params.frequency,
                                             !.targetAmplitude = params.amplitude,
                                             !.lastUsedTime = now]]
                /\ oscillatorPools' =
                     [oscillatorPools EXCEPT ![ctlBuf][ctlIndex] = setParameters(@, params)]
                /\ spatialGrid' =
                     [spatialGrid EXCEPT ![getCellIndex(ctlPoint.y)] = Append(@, ctlIndex)]
    /\ pcC' = "idle"
    /\ ctlDone
    /\ allocVia' = "none"
    /\ silenced' = "no"
    /\ UNCHANGED <<freeOscillatorIndices, swapVars, isActive, currentStroke, blockCounter,
                   now, audioVars, ctlOps, swappedThisBlock, rideAlong,
                   strokeVars, canvasScan, outVars, configVars>>

\* variant: only the first nearby index is updated
InfluenceOscillators_FirstOnly ==
    /\ pcC = "influence"
    /\ LET sp == InfluenceAll(<<oscillatorStates, oscillatorPools[ctlBuf]>>,
                              IF ctlNearby = <<>> THEN <<>> ELSE <<Head(ctlNearby)>>,
                              ctlPoint, now)
       IN  /\ oscillatorStates' = sp[1]
           /\ oscillatorPools' = [oscillatorPools EXCEPT ![ctlBuf] = sp[2]]
    /\ pcC' = "idle"
    /\ ctlDone
    /\ silenced' = "no"
    /\ UNCHANGED <<freeOscillatorIndices, swapVars, isActive, spatialGrid, currentStroke,
                   blockCounter, now, audioVars, ctlOps, allocVia, swappedThisBlock,
                   rideAlong,
                   strokeVars, canvasScan, outVars, configVars>>

\* the loop of updateOscillatorWithInfluence calls over the nearby indices
InfluenceOscillators ==
    /\ pcC = "influence"
    /\ LET sp == InfluenceAll(<<oscillatorStates, oscillatorPools[ctlBuf]>>,
                              ctlNearby, ctlPoint, now)
       IN  /\ oscillatorStates' = sp[1]
           /\ oscillatorPools' = [oscillatorPools EXCEPT ![ctlBuf] = sp[2]]
    /\ pcC' = "idle"
    /\ ctlDone
    /\ silenced' = "no"
    /\ UNCHANGED <<freeOscillatorIndices, swapVars, isActive, spatialGrid, currentStroke,
                   blockCounter, now, audioVars, ctlOps, allocVia, swappedThisBlock,
                   rideAlong,
                   strokeVars, canvasScan, outVars, configVars>>

\* variant: the slot is returned to the free list at once
ReleaseOscillator_Immediate(index) ==
    /\ pcC = "idle"
    /\ ctlOps < MaxCtlOps
    /\ ctlOps' = ctlOps + 1
    /\ index >= 0 /\ index < MAX_OSCILLATORS
    /\ oscillatorStates[index].inUse
    /\ oscillatorStates' = [oscillatorStates EXCEPT ![index] =
                                [@ EXCEPT !.envelopePhase = "Inactive", !.inUse = FALSE]]
    /\ freeOscillatorIndices' = Append(freeOscillatorIndices, index)
    /\ UNCHANGED <<oscillatorPools, swapVars, isActive, spatialGrid,
                   currentStroke, blockCounter, now, audioVars, ctlVars, allocVia,
                   swappedThisBlock, rideAlong,
                   strokeVars, canvasScan, outVars, silenced, configVars>>

\* releaseOscillator, called for a slot that is in use (the function has no
\* caller in the sources at hand)
ReleaseOscillator(index) ==
    /\ pcC = "idle"
    /\ ctlOps < MaxCtlOps
    /\ ctlOps' = ctlOps + 1
    /\ index >= 0 /\ index < MAX_OSCILLATORS
    /\ oscillatorStates[index].inUse
    /\ oscillatorStates' = [oscillatorStates EXCEPT ![index] = release(@)]
    /\ UNCHANGED <<oscillatorPools, freeOscillatorIndices, swapVars, isActive, spatialGrid,
                   currentStroke, blockCounter, now, audioVars, ctlVars, allocVia,
                   swappedThisBlock, rideAlong,
                   strokeVars, canvasScan, outVars, silenced, configVars>>

\* clearCanvas up to the loop over its backBuffer reference
ClearCanvasBegin ==
    /\ pcC = "idle"
    /\ ctlOps < MaxCtlOps
    /\ ctlOps' = ctlOps + 1
    /\ pcC' = "clear"
    /\ ctlBuf' = backBufferIndex
    /\ currentStroke' = FALSE
    /\ strokePoints' = <<>>
    /\ canvasRegions' = NoRegions
    /\ UNCHANGED <<poolVars, swapVars, isActive, spatialGrid, blockCounter, now, audioVars,
                   ctlIndex, ctlPoint, ctlNearby, allocVia, swappedThisBlock,
                   rideAlong, nextStrokeId, canvasScan, outVars, silenced, configVars>>

\* the reset loop of clearCanvas, then requestBufferSwap
ClearCanvasWrite ==
    /\ pcC = "clear"
    /\ oscillatorPools' =
            [oscillatorPools EXCEPT ![ctlBuf] = [i \in Slots |-> OscReset(@[i])]]
    /\ bufferSwapPending' = requestBufferSwap(bufferSwapPending)
    /\ rideAlong' = IF bufferSwapPending /\ ctlBuf # frontBufferIndex THEN ctlBuf
                    ELSE rideAlong
    /\ pcC' = "idle"
    /\ ctlDone
    /\ silenced' = "requested"
    /\ UNCHANGED <<oscillatorStates, freeOscillatorIndices, frontBufferIndex, backBufferIndex,
                   isActive, spatialGrid, currentStroke, blockCounter, now, audioVars,
                   ctlOps, allocVia, swappedThisBlock,
                   strokeVars, canvasScan, outVars, configVars>>

\* prepareToPlay: the rate is stored and both oscillator arrays are reset to
\* default oscillators
PrepareToPlay(sr) ==
    /\ pcC = "idle"
    /\ ctlOps < MaxCtlOps
    /\ ctlOps' = ctlOps + 1
    /\ sampleRate' = sr
    /\ oscillatorPools' = [b \in Buffers |-> [i \in Slots |-> DefaultOscillator]]
    /\ UNCHANGED <<oscillatorStates, freeOscillatorIndices, swapVars, isActive, spatialGrid,
                   currentStroke, blockCounter, now, audioVars, ctlVars, allocVia,
                   swappedThisBlock, rideAlong, strokeVars, canvasScan, outVars, silenced,
                   minFrequency, maxFrequency, mapVars, pluginVars>>

SetFrequencyRange(minHz, maxHz) ==
    /\ pcC = "idle"
    /\ ctlOps < MaxCtlOps
    /\ ctlOps' = ctlOps + 1
    /\ minFrequency' = setFrequencyRange(minHz, maxHz).min
    /\ maxFrequency' = setFrequencyRange(minHz, maxHz).max
    /\ UNCHANGED <<poolVars, swapVars, isActive, spatialGrid, currentStroke, blockCounter,
                   now, audioVars, ctlVars, allocVia, swappedThisBlock, rideAlong,
                   strokeVars, canvasScan, outVars, silenced, sampleRate, mapVars,
                   pluginVars>>

\* ---- the clock ----
Tick ==
    /\ now < MaxTime
    /\ now' = now + 1
    /\ UNCHANGED <<poolVars, swapVars, isActive, spatialGrid, currentStroke, blockCounter,
                   audioVars, ctlVars, ctlOps, allocVia, swappedThisBlock, rideAlong,
                   strokeVars, canvasScan, outVars, silenced, configVars>>

\* ---- audio thread: processBlock ----
\* a processBlock that returns at once when the engine is inactive and leaves
\* the buffer as the host handed it over
ProcessBlockInactive_NoClear ==
    /\ pcA = "idle"
    /\ ~isActive
    /\ returnedInactive' = TRUE
    /\ UNCHANGED <<poolVars, swapVars, isActive, spatialGrid, currentStroke, blockCounter,
                   now, audioVars, ctlVars, ctlOps, allocVia, swappedThisBlock, rideAlong,
                   strokeVars, canvasScan, silenced, configVars, buffer>>

\* the inactive branch: buffer.clear() and return
ProcessBlockInactive ==
    /\ pcA = "idle"
    /\ ~isActive
    /\ buffer' = "zero"
    /\ returnedInactive' = TRUE
    /\ UNCHANGED <<poolVars, swapVars, isActive, spatialGrid, currentStroke, blockCounter,
                   now, audioVars, ctlVars, ctlOps, allocVia, swappedThisBlock, rideAlong,
                   strokeVars, canvasScan, silenced, configVars>>

\* isActive, buffer.clear, then swapBuffersIfPending up to its store to
\* frontBufferIndex; without a pending swap, on to the sample loop
ProcessBlockEnter ==
    /\ pcA = "idle"
    /\ isActive
    /\ IF bufferSwapPending
       THEN /\ savedFront' = frontBufferIndex
            /\ frontBufferIndex' = backBufferIndex
            /\ pcA' = "swapStoreBack"
            /\ swappedThisBlock' = TRUE
            /\ rideAlong' = IF rideAlong = backBufferIndex THEN NoIndex ELSE rideAlong
            /\ silenced' = IF silenced = "requested" THEN "done" ELSE silenced
            /\ UNCHANGED <<sample, currentPool, canvasScan>>
       ELSE /\ canvasScan' = updateCanvasOscillators
            /\ currentPool' = frontBufferIndex
            /\ sample' = 0
            /\ pcA' = "render"
            /\ swappedThisBlock' = FALSE
            /\ UNCHANGED <<savedFront, frontBufferIndex, rideAlong, silenced>>
    /\ buffer' = "zero"
    /\ returnedInactive' = FALSE
    /\ UNCHANGED <<poolVars, backBufferIndex, bufferSwapPending, isActive, spatialGrid,
                   currentStroke, blockCounter, now, ctlVars, ctlOps, allocVia,
                   strokeVars, configVars>>

SwapStoreBack ==
    /\ pcA = "swapStoreBack"
    /\ backBufferIndex' = savedFront
    /\ savedFront' = 0
    /\ pcA' = "swapClear"
    /\ UNCHANGED <<poolVars, frontBufferIndex, bufferSwapPending, isActive, spatialGrid,
                   currentStroke, blockCounter, now, sample, currentPool,
                   ctlVars, ctlOps, allocVia, swappedThisBlock, rideAlong,
                   strokeVars, canvasScan, outVars, silenced, configVars>>

\* the store that clears bufferSwapPending, then getFrontBuffer()
SwapClearPending ==
    /\ pcA = "swapClear"
    /\ bufferSwapPending' = FALSE
    /\ currentPool' = frontBufferIndex
    /\ sample' = 0
    /\ pcA' = "render"
    /\ canvasScan' = updateCanvasOscillators
    /\ UNCHANGED <<poolVars, frontBufferIndex, backBufferIndex, isActive, spatialGrid,
                   currentStroke, blockCounter, now, savedFront, ctlVars, ctlOps, allocVia,
                   swappedThisBlock, rideAlong,
                   strokeVars, outVars, silenced, configVars>>

\* variant: the sample loop itself performs a pending swap
RenderSample_SwapInLoop ==
    /\ pcA = "render"
    /\ sample < NumSamples
    /\ oscillatorStates' = [i \in Slots |-> RenderSlot(oscillatorStates[i], now)]
    /\ freeOscillatorIndices' = freeOscillatorIndices \o ReclaimedFrom(0)
    /\ sample' = sample + 1
    /\ IF bufferSwapPending
       THEN /\ frontBufferIndex' = backBufferIndex
            /\ backBufferIndex' = frontBufferIndex
            /\ bufferSwapPending' = FALSE
       ELSE UNCHANGED swapVars
    /\ buffer' = IF \E i \in Slots :
                        envelopedSample(oscillatorStates[i], oscillatorPools[currentPool][i]) # 0
                  THEN "sound" ELSE buffer
    /\ UNCHANGED <<oscillatorPools, isActive, spatialGrid, currentStroke,
                   blockCounter, now, pcA, currentPool, savedFront, ctlVars, ctlOps,
                   allocVia, swappedThisBlock, rideAlong,
                   strokeVars, canvasScan, returnedInactive, silenced, configVars>>

\* one pass of the sample loop over every slot
RenderSample ==
    /\ pcA = "render"
    /\ sample < NumSamples
    /\ oscillatorStates' = [i \in Slots |-> RenderSlot(oscillatorStates[i], now)]
    /\ freeOscillatorIndices' = freeOscillatorIndices \o ReclaimedFrom(0)
    /\ sample' = sample + 1
    /\ buffer' = IF \E i \in Slots :
                        envelopedSample(oscillatorStates[i], oscillatorPools[currentPool][i]) # 0
                  THEN "sound" ELSE buffer
    /\ UNCHANGED <<oscillatorPools, swapVars, isActive, spatialGrid, currentStroke,
                   blockCounter, now, pcA, currentPool, savedFront, ctlVars, ctlOps,
                   allocVia, swappedThisBlock, rideAlong,
                   strokeVars, canvasScan, returnedInactive, silenced, configVars>>

\* after the loop: the block counter and, every OptimizePeriod blocks,
\* optimizeOscillatorPool (compaction of getBackBuffer(), requestBufferSwap)
ProcessBlockEnd ==
    /\ pcA = "render"
    /\ sample >= NumSamples
    /\ blockCounter' = (blockCounter + 1) % OptimizePeriod
    /\ IF blockCounter' = 0
       THEN /\ oscillatorPools' =
                    [oscillatorPools EXCEPT ![backBufferIndex] = Compact(@, 0, 0)]
            /\ bufferSwapPending' = requestBufferSwap(bufferSwapPending)
       ELSE UNCHANGED <<oscillatorPools, bufferSwapPending>>
    /\ pcA' = "idle"
    /\ sample' = 0
    /\ currentPool' = 0
    /\ swappedThisBlock' = FALSE
    /\ canvasScan' = NoIndex
    /\ UNCHANGED <<oscillatorStates, freeOscillatorIndices, frontBufferIndex,
                   backBufferIndex, isActive, spatialGrid, currentStroke, now,
                   savedFront, ctlVars, ctlOps, allocVia, rideAlong,
                   strokeVars, outVars, silenced, configVars>>

Next ==
    \/ \E b \in BOOLEAN : SetActive(b)
    \/ \E point \in Points : BeginStroke(point)
    \/ EndStroke
    \/ \E point \in Points : UpdateStroke(point)
    \/ ActivateOscillator
    \/ InfluenceOscillators
    \/ \E i \in Slots : ReleaseOscillator(i)
    \/ ClearCanvasBegin
    \/ ClearCanvasWrite
    \/ Tick
    \/ ProcessBlockInactive
    \/ ProcessBlockEnter
    \/ SwapStoreBack
    \/ SwapClearPending
    \/ RenderSample
    \/ ProcessBlockEnd

Spec == Init /\ [][Next]_vars

\* the host keeps calling processBlock, and a block that has started runs to
\* its end; the control thread performs up to FairOps operations
FairOps == MaxCtlOps - 1

FairNext ==
    \/ ((\E b \in BOOLEAN : SetActive(b)) /\ ctlOps' <= FairOps)
    \/ ((\E point \in Points : BeginStroke(point)) /\ ctlOps' <= FairOps)
    \/ (EndStroke /\ ctlOps' <= FairOps)
    \/ ((\E point \in Points : UpdateStroke(point)) /\ ctlOps' <= FairOps)
    \/ ActivateOscillator
    \/ InfluenceOscillators
    \/ ((\E i \in Slots : ReleaseOscillator(i)) /\ ctlOps' <= FairOps)
    \/ (ClearCanvasBegin /\ ctlOps' <= FairOps)
    \/ ClearCanvasWrite
    \/ Tick
    \/ ProcessBlockInactive
    \/ ProcessBlockEnter
    \/ SwapStoreBack
    \/ SwapClearPending
    \/ RenderSample
    \/ ProcessBlockEnd

FairSpec ==
    /\ Init /\ [][FairNext]_vars
    /\ WF_vars(ProcessBlockEnter)
    /\ WF_vars(SwapStoreBack)
    /\ WF_vars(SwapClearPending)
    /\ WF_vars(RenderSample)
    /\ WF_vars(ProcessBlockEnd)

\* ---- the command path of PluginProcessor::processBlock: queued paint
\* commands are applied by processCommands before paintEngine.processBlock
\* runs, so an operation and a block never overlap; stroke points take every
\* lattice point and every pressure of Pressures
SeqOps == MaxCtlOps - 1

SeqNext ==
    \/ (pcA = "idle" /\ (\E b \in BOOLEAN : SetActive(b)) /\ ctlOps' <= SeqOps)
    \/ (pcA = "idle" /\ (\E point \in AllPoints : BeginStroke(point)) /\ ctlOps' <= SeqOps)
    \/ (pcA = "idle" /\ EndStroke /\ ctlOps' <= SeqOps)
    \/ (pcA = "idle" /\ (\E point \in AllPoints : UpdateStroke(point)) /\ ctlOps' <= SeqOps)
    \/ (pcA = "idle" /\ ActivateOscillator)
    \/ (pcA = "idle" /\ InfluenceOscillators)
    \/ (pcA = "idle" /\ (\E i \in Slots : ReleaseOscillator(i)) /\ ctlOps' <= SeqOps)
    \/ (pcA = "idle" /\ ClearCanvasBegin /\ ctlOps' <= SeqOps)
    \/ (pcA = "idle" /\ ClearCanvasWrite)
    \/ Tick
    \/ (pcC = "idle" /\ ProcessBlockInactive)
    \/ (pcC = "idle" /\ ProcessBlockEnter)
    \/ (pcC = "idle" /\ SwapStoreBack)
    \/ (pcC = "idle" /\ SwapClearPending)
    \/ (pcC = "idle" /\ RenderSample)
    \/ (pcC = "idle" /\ ProcessBlockEnd)

SeqSpec == Init /\ [][SeqNext]_vars

\* ---- the plug-in as its host drives it: prepareToPlay, then blocks, each
\* of which applies the queued paint commands (setFrequencyRange among them)
\* before it renders; stroke points take pressures inside and outside [0, 1]
HostOps == MaxCtlOps - 2

HostNext ==
    \/ (pcA = "idle" /\ (\E sr \in SampleRates : PrepareToPlay(sr)) /\ ctlOps' <= HostOps)
    \/ (pcA = "idle" /\ (\E r \in FrequencyRanges : SetFrequencyRange(r[1], r[2]))
                     /\ ctlOps' <= HostOps)
    \/ (pcA = "idle" /\ (\E b \in BOOLEAN : SetActive(b)) /\ ctlOps' <= HostOps)
    \/ (pcA = "idle" /\ (\E point \in WidePoints : BeginStroke(point)) /\ ctlOps' <= HostOps)
    \/ (pcA = "idle" /\ EndStroke /\ ctlOps' <= HostOps)
    \/ (pcA = "idle" /\ (\E point \in WidePoints : UpdateStroke(point)) /\ ctlOps' <= HostOps)
    \/ (pcA = "idle" /\ ActivateOscillator)
    \/ (pcA = "idle" /\ InfluenceOscillators)
    \/ (pcA = "idle" /\ ClearCanvasBegin /\ ctlOps' <= HostOps)
    \/ (pcA = "idle" /\ ClearCanvasWrite)
    \/ Tick
    \/ (pcC = "idle" /\ ProcessBlockInactive)
    \/ (pcC = "idle" /\ ProcessBlockEnter)
    \/ (pcC = "idle" /\ SwapStoreBack)
    \/ (pcC = "idle" /\ SwapClearPending)
    \/ (pcC = "idle" /\ RenderSample)
    \/ (pcC = "idle" /\ ProcessBlockEnd)

HostSpec == Init /\ [][HostNext]_vars

\* ---- the coordinate mapping taken alone ----
\* the engine after setFrequencyRange and setCanvasRegion, on either scale
MapInit ==
    /\ EngineInit
    /\ \E r \in MapRanges :
         /\ minFrequency = setFrequencyRange(r[1], r[2]).min
         /\ maxFrequency = setFrequencyRange(r[1], r[2]).max
    /\ \E b \in MapBounds : canvasBottom = b[1] /\ canvasTop = b[2]
    /\ useLogFrequencyScale \in BOOLEAN

CanvasYToFrequency(y) ==
    /\ roundTrip' = [stage |-> "mapped", y |-> y, frequency |-> canvasYToFrequency(y),
                     back |-> 0]
    /\ UNCHANGED <<poolVars, swapVars, isActive, spatialGrid, currentStroke, blockCounter,
                   now, audioVars, ctlVars, ctlOps, allocVia, swappedThisBlock, rideAlong,
                   strokeVars, canvasScan, outVars, silenced, minFrequency, maxFrequency,
                   sampleRate, canvasBottom, canvasTop, useLogFrequencyScale, regionKeys,
                   pluginVars>>

FrequencyToCanvasY ==
    /\ roundTrip.stage = "mapped"
    /\ roundTrip' = [roundTrip EXCEPT !.stage = "back",
                                      !.back = frequencyToCanvasY(roundTrip.frequency)]
    /\ UNCHANGED <<poolVars, swapVars, isActive, spatialGrid, currentStroke, blockCounter,
                   now, audioVars, ctlVars, ctlOps, allocVia, swappedThisBlock, rideAlong,
                   strokeVars, canvasScan, outVars, silenced, minFrequency, maxFrequency,
                   sampleRate, canvasBottom, canvasTop, useLogFrequencyScale, regionKeys,
                   pluginVars>>

MapNext ==
    \/ \E y \in canvasBottom .. canvasTop : CanvasYToFrequency(y)
    \/ FrequencyToCanvasY

MapSpec == MapInit /\ [][MapNext]_vars

\* ---- getRegionKey taken alone: the keys of two region cells ----
GetRegionKeys(a, b) ==
    /\ regionKeys.stage = "none"
    /\ \E keyA \in getRegionKey(a[1], a[2]) : \E keyB \in getRegionKey(b[1], b[2]) :
         regionKeys' = [stage |-> "done", a |-> a, b |-> b, keyA |-> keyA, keyB |-> keyB]
    /\ UNCHANGED <<poolVars, swapVars, isActive, spatialGrid, currentStroke, blockCounter,
                   now, audioVars, ctlVars, ctlOps, allocVia, swappedThisBlock, rideAlong,
                   strokeVars, canvasScan, outVars, silenced, minFrequency, maxFrequency,
                   sampleRate, canvasBottom, canvasTop, useLogFrequencyScale, roundTrip,
                   pluginVars>>

KeyNext == \E a \in RegionCoords \X RegionCoords : \E b \in RegionCoords \X RegionCoords :
               GetRegionKeys(a, b)

KeySpec == Init /\ [][KeyNext]_vars

\* ---- the plug-in around the engine: pause, resume, the command queue ----
engineRest == <<poolVars, swapVars, spatialGrid, currentStroke, blockCounter, now,
                audioVars, ctlVars, ctlOps, allocVia, swappedThisBlock, rideAlong,
                strokeVars, canvasScan, outVars, silenced, minFrequency, maxFrequency,
                sampleRate, mapVars>>

PushCommandToQueue(cmd) ==
    /\ commandQueue' = pushAll(commandQueue, <<cmd>>)
    /\ UNCHANGED <<engineRest, isActive, audioProcessingPaused, pcP, pluginBlock, resumeStage>>

\* pauseAudioProcessing: the flag, a StopPlayback per voice, the engine off
PauseAudioProcessing ==
    /\ audioProcessingPaused' = TRUE
    /\ commandQueue' = pushAll(commandQueue, StopCommands(TRUE))
    /\ isActive' = FALSE
    /\ UNCHANGED <<engineRest, pcP, pluginBlock, resumeStage>>

\* resumeAudioProcessing: shouldBeActive comes from the mode and the
\* paintActive parameter
ResumeAudioProcessing(shouldBeActive) ==
    /\ audioProcessingPaused' = FALSE
    /\ isActive' = shouldBeActive
    /\ resumeStage' = "awaited"
    /\ UNCHANGED <<engineRest, commandQueue, pcP, pluginBlock>>

\* variant: a block of the paused plug-in processes the queue before it returns
PluginBlockPaused_Drains ==
    /\ pcP = "idle"
    /\ audioProcessingPaused
    /\ pluginBlock' = [output |-> "cleared", processed |-> commandQueue]
    /\ commandQueue' = <<>>
    /\ UNCHANGED <<engineRest, isActive, audioProcessingPaused, pcP, resumeStage>>

\* processBlock of the paused plug-in: buffer.clear(), midi.clear(), return
PluginBlockPaused ==
    /\ pcP = "idle"
    /\ audioProcessingPaused
    /\ pluginBlock' = [output |-> "cleared", processed |-> <<>>]
    /\ UNCHANGED <<engineRest, isActive, audioProcessingPaused, commandQueue, pcP, resumeStage>>

\* processBlock of the running plug-in, past the test of the flag
PluginBlockEnter ==
    /\ pcP = "idle"
    /\ ~audioProcessingPaused
    /\ pcP' = "commands"
    /\ pluginBlock' = NoPluginBlock
    /\ resumeStage' = IF resumeStage = "awaited" THEN "running" ELSE "done"
    /\ UNCHANGED <<engineRest, isActive, audioProcessingPaused, commandQueue>>

\* processCommands: the queue is drained oldest first until it is empty or
\* the time limit has passed, which is looked at after each command
PluginProcessCommands ==
    /\ pcP = "commands"
    /\ \E n \in 0 .. Len(commandQueue) :
         /\ commandQueue # <<>> => n >= 1
         /\ pluginBlock' = [pluginBlock EXCEPT !.processed = SubSeq(commandQueue, 1, n)]
         /\ commandQueue' = SubSeq(commandQueue, n + 1, Len(commandQueue))
    /\ pcP' = "render"
    /\ UNCHANGED <<engineRest, isActive, audioProcessingPaused, resumeStage>>

\* the rest of processBlock: the engines render into the buffer
PluginBlockRender ==
    /\ pcP = "render"
    /\ pluginBlock' = [pluginBlock EXCEPT !.output = "rendered"]
    /\ pcP' = "idle"
    /\ UNCHANGED <<engineRest, isActive, audioProcessingPaused, commandQueue, resumeStage>>

PluginNext ==
    \/ \E cmd \in Commands(audioProcessingPaused) : PushCommandToQueue(cmd)
    \/ PauseAudioProcessing
    \/ \E shouldBeActive \in BOOLEAN : ResumeAudioProcessing(shouldBeActive)
    \/ PluginBlockPaused
    \/ PluginBlockEnter
    \/ PluginProcessCommands
    \/ PluginBlockRender

PluginSpec == Init /\ [][PluginNext]_vars

\* ---- properties ----
Occurrences(i) ==
    Cardinality({k \in DOMAIN freeOscillatorIndices : freeOscillatorIndices[k] = i})

\* C1: whenever no control operation is in progress, every slot index either
\* appears exactly once in the free list and is not in use, or does not
\* appear in the free list and is in use.
FreeListPartition ==
    pcC = "idle" =>
        \A i \in Slots :
            \/ (Occurrences(i) = 1 /\ ~oscillatorStates[i].inUse)
            \/ (Occurrences(i) = 0 /\ oscillatorStates[i].inUse)

\* C2: while a block is being rendered, no step writes the oscillator array
\* that the block reads as front.
RenderedBufferNotWritten ==
    [][(pcA = "render" /\ pcA' = "render")
            => oscillatorPools'[currentPool] = oscillatorPools[currentPool]]_vars

\* C3: the front index changes only on the first step of a block, before the
\* sample loop, and the back index only on the step after it; neither changes
\* between the first and the last sample of a block.
SwapOnlyAtBlockStart ==
    [][/\ frontBufferIndex' # frontBufferIndex
            => (pcA = "idle" /\ pcA' = "swapStoreBack" /\ sample = 0)
       /\ backBufferIndex' # backBufferIndex
            => (pcA = "swapStoreBack" /\ pcA' = "swapClear" /\ sample = 0)]_vars

\* a block that began with a swap has rendered all of its samples
SwappedBlockRendered ==
    swappedThisBlock /\ pcA = "render" /\ sample = NumSamples /\ frontBufferIndex = 1

\* C4: in every state, frontBufferIndex and backBufferIndex are the two
\* distinct values of {0, 1}.
IndicesDistinct ==
    /\ frontBufferIndex \in Buffers
    /\ backBufferIndex \in Buffers
    /\ frontBufferIndex # backBufferIndex

\* C5: when updateStroke returns after writing an oscillator of the back
\* buffer, a buffer swap is pending.
UpdateRequestsSwap ==
    [][(pcC \in {"activate", "influence"} /\ pcC' = "idle"
            /\ oscillatorPools' # oscillatorPools)
            => bufferSwapPending']_vars

\* C6: a back-buffer write whose swap request was skipped because a swap was
\* already pending stays covered by a pending swap until a swap publishes it.
SkippedRequestRidesAlong ==
    rideAlong # NoIndex => bufferSwapPending

\* C7: while the audio thread is inside its sample loop, no step of another
\* thread writes the per-slot state array or the free list.
NoWriteDuringSampleLoop ==
    [][(pcA = "render" /\ pcA' = "render" /\ sample' = sample)
            => UNCHANGED <<oscillatorStates, freeOscillatorIndices>>]_vars

\* C8: no step of the audio thread writes the back buffer or sets
\* bufferSwapPending.
AudioLeavesBackBufferAlone ==
    [][(pcA' # pcA \/ sample' # sample)
            => /\ oscillatorPools'[backBufferIndex] = oscillatorPools[backBufferIndex]
               /\ (bufferSwapPending' => bufferSwapPending)]_vars

\* C9: the index allocateOscillator hands to activateOscillator is always in
\* [0, MAX_OSCILLATORS), also when the free list is empty and every slot is
\* in Attack or Sustain.
AllocateReturnsValidIndex ==
    pcC = "activate" => ctlIndex \in Slots

\* allocateOscillator has returned with the free list empty and every slot
\* in Attack or Sustain
StolenFromAllSounding ==
    /\ pcC = "activate"
    /\ allocVia = "oldest"
    /\ freeOscillatorIndices = <<>>
    /\ \A i \in Slots : oscillatorStates[i].envelopePhase \in {"Attack", "Sustain"}

\* the slot the allocation priority names in the current state
WindingDown == {i \in Slots : oscillatorStates[i].envelopePhase \in {"Release", "Inactive"}}

ExpectedIndex ==
    IF freeOscillatorIndices # <<>>
    THEN freeOscillatorIndices[Len(freeOscillatorIndices)]
    ELSE IF WindingDown # {}
    THEN CHOOSE i \in WindingDown : \A j \in WindingDown : i <= j
    ELSE CHOOSE i \in Slots :
            \A j \in Slots :
                \/ oscillatorStates[i].lastUsedTime < oscillatorStates[j].lastUsedTime
                \/ (oscillatorStates[i].lastUsedTime = oscillatorStates[j].lastUsedTime /\ i <= j)

\* C10: allocateOscillator returns the top of the free list and removes it;
\* with an empty free list the first slot in Release or Inactive; otherwise
\* the slot with the least lastUsedTime, the lowest index among equals.
AllocationPriority ==
    [][(pcC = "idle" /\ pcC' = "activate")
            => /\ ctlIndex' = ExpectedIndex
               /\ freeOscillatorIndices' =
                    IF freeOscillatorIndices # <<>>
                    THEN SubSeq(freeOscillatorIndices, 1, Len(freeOscillatorIndices) - 1)
                    ELSE freeOscillatorIndices]_vars

\* the oldest slot was stolen and it is neither the lowest index nor tied
OldestStolenByTime ==
    /\ pcC = "activate"
    /\ allocVia = "oldest"
    /\ ctlIndex > 0
    /\ \A j \in Slots \ {ctlIndex} :
            oscillatorStates[j].lastUsedTime > oscillatorStates[ctlIndex].lastUsedTime


\* number of activations so far: assignOscillatorToGrid appends one entry
\* per activation and nothing removes entries
RECURSIVE GridCount(_)
GridCount(c) == IF c >= GridCells THEN 0 ELSE Len(spatialGrid[c]) + GridCount(c + 1)

\* every operation so far was the start of the open gesture or an update of
\* it that allocated an oscillator: nothing was released, cleared or nudged
OnlyAllocatingGesture ==
    currentStroke /\ pcC = "idle" /\ ctlOps = 1 + GridCount(0)

\* C11: after MAX_OSCILLATORS allocating updates of a gesture every slot is
\* active and in use and the free list is empty; a further high-pressure
\* update allocates, the slot it gets has the least lastUsedTime, and
\* activateOscillator puts that slot in Attack with the targets of the new
\* point.
ExhaustedPoolSteals ==
    /\ [](OnlyAllocatingGesture /\ GridCount(0) >= MAX_OSCILLATORS
            => /\ freeOscillatorIndices = <<>>
               /\ \A i \in Slots :
                    StateIsActive(oscillatorStates[i]) /\ oscillatorStates[i].inUse)
    /\ [][/\ (OnlyAllocatingGesture /\ GridCount(0) >= MAX_OSCILLATORS
                /\ pcC' # "idle" /\ ctlPoint'.pressure > PressureHigh)
            => /\ pcC' = "activate"
               /\ ctlIndex' \in Slots
               /\ \A j \in Slots : oscillatorStates[ctlIndex'].lastUsedTime
                                        <= oscillatorStates[j].lastUsedTime
          /\ (pcC = "activate" /\ pcC' = "idle" /\ allocVia = "oldest")
            => /\ ctlIndex \in Slots
               /\ oscillatorStates'[ctlIndex].envelopePhase = "Attack"
               /\ oscillatorStates'[ctlIndex].inUse
               /\ oscillatorStates'[ctlIndex].targetFrequency = canvasYToFrequency(ctlPoint.y)
               /\ oscillatorStates'[ctlIndex].targetAmplitude = ctlPoint.pressure
               /\ oscillatorPools'[ctlBuf][ctlIndex].frequency = canvasYToFrequency(ctlPoint.y)]_vars

\* a gesture has made one allocation more than the pool has slots
StolenAfterExhaustion ==
    OnlyAllocatingGesture /\ GridCount(0) = MAX_OSCILLATORS + 1

\* C12: when a gesture begins (beginStroke, or updateStroke without an open
\* stroke) a slot is activated for its point: the step leaves some slot
\* active that the step itself put in Attack.
GestureBeginActivates ==
    [][(~currentStroke /\ currentStroke')
            => \E i \in Slots :
                    /\ oscillatorStates'[i].envelopePhase = "Attack"
                    /\ oscillatorStates'[i] # oscillatorStates[i]]_vars

\* C13: endStroke puts every slot that the gesture activated in Release at
\* once.  Before the step every operation was the start of this gesture or
\* one of its allocating updates, so the slots in use are the ones it
\* activated.
EndGestureReleases ==
    [][(OnlyAllocatingGesture /\ ~currentStroke' /\ pcC' = "idle")
            => \A i \in Slots :
                    oscillatorStates[i].inUse
                        => oscillatorStates'[i].envelopePhase = "Release"]_vars

\* C14: a slot's inUse is cleared, and its index pushed on the free list,
\* only by the first sample pass of a block, that is in a block after the one
\* in which the slot became Inactive, never by a later pass of that block.
ReclaimOnlyAtNextBlock ==
    [][\A i \in Slots :
            (oscillatorStates[i].inUse /\ ~oscillatorStates'[i].inUse)
                => (pcA = "render" /\ sample = 0)]_vars

\* C15: while the engine is active, a slot in Release does not stay there:
\* it is re-activated, or it becomes Inactive and its index gets back on the
\* free list.
ReleaseTerminates ==
    \A i \in Slots :
        (oscillatorStates[i].envelopePhase = "Release" /\ isActive)
            ~> \/ ~isActive
               \/ oscillatorStates[i].envelopePhase \in {"Attack", "Sustain"}
               \/ (oscillatorStates[i].envelopePhase = "Inactive" /\ Occurrences(i) >= 1)

\* a slot that was activated and released is Inactive, free and not in use
ReleasedSlotReclaimed ==
    \E i \in Slots :
        /\ \E c \in Cells : \E k \in DOMAIN spatialGrid[c] : spatialGrid[c][k] = i
        /\ oscillatorStates[i].envelopePhase = "Inactive"
        /\ ~oscillatorStates[i].inUse
        /\ Occurrences(i) = 1

\* a control operation that starts and ends in one step and changes the
\* per-slot states: releaseOscillator
ReleaseStep ==
    /\ pcC = "idle" /\ pcC' = "idle"
    /\ ctlOps' = ctlOps + 1
    /\ oscillatorStates' # oscillatorStates

Lifecycle ==
    { <<"Inactive", "Attack">>, <<"Attack", "Sustain">>,
      <<"Sustain", "Release">>, <<"Release", "Inactive">> }

\* C17 as stated: a slot's phase changes only along Inactive -> Attack,
\* Attack -> Sustain, Sustain -> Release and Release -> Inactive.
OnlyLifecycleTransitions ==
    [][\A i \in Slots :
         oscillatorStates'[i].envelopePhase # oscillatorStates[i].envelopePhase
            => <<oscillatorStates[i].envelopePhase,
                 oscillatorStates'[i].envelopePhase>> \in Lifecycle]_vars

\* C17: a slot enters Sustain only from Attack and Inactive only from
\* Release, both in a sample pass of processBlock; it enters Attack, from any
\* phase, only by activateOscillator and Release, from any phase, only by
\* releaseOscillator.
PhaseTransitions ==
    [][\A i \in Slots :
         LET from == oscillatorStates[i].envelopePhase
             to   == oscillatorStates'[i].envelopePhase
         IN  from # to =>
               CASE to = "Sustain"  -> from = "Attack" /\ pcA = "render"
                                       /\ sample' = sample + 1
                 [] to = "Inactive" -> from = "Release" /\ pcA = "render"
                                       /\ sample' = sample + 1
                 [] to = "Attack"   -> pcC = "activate" /\ pcC' = "idle" /\ i = ctlIndex
                 [] to = "Release"  -> ReleaseStep]_vars

\* a slot taken while sustaining and started again at Attack: no release has
\* happened, and the envelope value is the one it reached in Sustain
StolenWhileSustaining ==
    /\ OnlyAllocatingGesture
    /\ \E i \in Slots :
         /\ oscillatorStates[i].envelopePhase = "Attack"
         /\ oscillatorStates[i].envelopeValue = EnvelopeFull

GatedUpdateStep ==
    /\ pcC = "idle"
    /\ pcC' \in {"activate", "influence"}
    /\ getNearbyOscillators(ctlPoint'.y) # <<>>

\* C19: shouldAllocateNewOscillator(point) is true exactly when the pressure
\* is above 0.1 and the free list is non-empty, or the pressure is above 0.5;
\* both comparisons are strict: pressure 0.1 gives false, and pressure 0.5
\* with an empty free list gives false.
AllocationGate ==
    [][GatedUpdateStep =>
         LET p == ctlPoint'.pressure
         IN  /\ pcC' = "activate"
                 <=> \/ (p > PressureLow /\ freeOscillatorIndices # <<>>)
                     \/ p > PressureHigh
             /\ p = PressureLow => pcC' = "influence"
             /\ (p = PressureHigh /\ freeOscillatorIndices = <<>>) => pcC' = "influence"
             /\ (p = PressureLow + 1 /\ freeOscillatorIndices # <<>>) => pcC' = "activate"
             /\ p = PressureHigh + 1 => pcC' = "activate"]_vars

\* a point of pressure exactly 0.5 met an empty free list and was not given
\* an oscillator of its own
HalfPressureNotAllocated ==
    /\ pcC = "influence"
    /\ ctlPoint.pressure = PressureHigh
    /\ freeOscillatorIndices = <<>>

\* the number of times index i occurs in the sequence q
RECURSIVE CountIn(_, _)
CountIn(q, i) ==
    IF q = <<>> THEN 0
    ELSE (IF Head(q) = i THEN 1 ELSE 0) + CountIn(Tail(q), i)

\* the first half of updateOscillatorsIncremental: the branch is chosen and,
\* on the allocating branch, one index is taken
UpdateChoosesBranch ==
    (pcC = "idle" /\ pcC' \in {"activate", "influence"}) =>
        /\ pcC' = "activate"
             <=> \/ getNearbyOscillators(ctlPoint'.y) = <<>>
                 \/ shouldAllocateNewOscillator(ctlPoint')
        /\ pcC' = "activate" =>
             /\ ctlIndex' \in Slots
             /\ IF freeOscillatorIndices # <<>>
                THEN /\ Len(freeOscillatorIndices') = Len(freeOscillatorIndices) - 1
                     /\ CountIn(freeOscillatorIndices, ctlIndex') >= 1
                ELSE freeOscillatorIndices' = freeOscillatorIndices
        /\ pcC' = "influence" =>
             /\ freeOscillatorIndices' = freeOscillatorIndices
             /\ ctlNearby' = getNearbyOscillators(ctlPoint'.y)
             /\ ctlNearby' # <<>>
        /\ oscillatorStates' = oscillatorStates
        /\ spatialGrid' = spatialGrid

\* the allocating branch: the slot is activated with the point's parameters
\* and added to the grid cell of the point; no other slot changes
AllocatingBranch ==
    (pcC = "activate" /\ pcC' = "idle" /\ ctlIndex \in Slots) =>
        LET params == strokePointToAudioParams(ctlPoint)
        IN  /\ oscillatorStates'[ctlIndex].envelopePhase = "Attack"
            /\ oscillatorStates'[ctlIndex].inUse
            /\ oscillatorStates'[ctlIndex].targetFrequency = canvasYToFrequency(ctlPoint.y)
            /\ oscillatorStates'[ctlIndex].targetAmplitude = params.amplitude
            /\ \A j \in Slots \ {ctlIndex} : oscillatorStates'[j] = oscillatorStates[j]
            /\ \A c \in Cells :
                 spatialGrid'[c] = IF c = getCellIndex(ctlPoint.y)
                                   THEN spatialGrid[c] \o <<ctlIndex>>
                                   ELSE spatialGrid[c]
            /\ freeOscillatorIndices' = freeOscillatorIndices

\* the blending branch: no slot is allocated, and every nearby index that is
\* sounding at the point's frequency has its targets blended towards the
\* point's parameters; every other slot is left as it is
BlendingBranch ==
    (pcC = "influence" /\ pcC' = "idle") =>
        LET params == strokePointToAudioParams(ctlPoint)
        IN  /\ freeOscillatorIndices' = freeOscillatorIndices
            /\ spatialGrid' = spatialGrid
            /\ \A j \in Slots :
                 LET old == oscillatorStates[j]
                     new == oscillatorStates'[j]
                     n   == CountIn(ctlNearby, j)
                     hit == /\ n >= 1
                            /\ StateIsActive(old)
                            /\ old.targetFrequency = canvasYToFrequency(ctlPoint.y)
                            /\ ctlPoint.pressure >= InfluenceFloor
                 IN  /\ new.envelopePhase = old.envelopePhase
                     /\ new.inUse = old.inUse
                     /\ ~hit => new = old
                     /\ hit => /\ new.targetFrequency = old.targetFrequency
                               /\ new.lastUsedTime = now
                               /\ new.targetAmplitude >= Min(old.targetAmplitude, params.amplitude)
                               /\ new.targetAmplitude <= Max(old.targetAmplitude, params.amplitude)
                     /\ (hit /\ n = 1) =>
                            new.targetAmplitude =
                                (old.targetAmplitude * (100 - ctlPoint.pressure)
                                    + params.amplitude * ctlPoint.pressure) \div 100

\* C20: for each gesture-update point, if the grid has no oscillator nearby
\* or shouldAllocateNewOscillator is true, exactly one oscillator is
\* allocated, activated with the point's parameters and added to the grid at
\* the point's cell, and no other slot's targets change; otherwise no slot is
\* allocated and the influence blending is applied to every nearby index.
UpdateAllocatesOrBlends ==
    [][UpdateChoosesBranch /\ AllocatingBranch /\ BlendingBranch]_vars

\* a sounding slot whose target amplitude is a blend: it was allocated for
\* one point and then pulled towards a later, lighter one
BlendedTarget ==
    /\ pcC = "idle"
    /\ \E i \in Slots :
         /\ StateIsActive(oscillatorStates[i])
         /\ oscillatorStates[i].targetAmplitude > 0
         /\ oscillatorStates[i].targetAmplitude \notin Pressures

\* C21: once clearCanvas has run and the swap it requested has been carried
\* out, no rendered block carries sound until a gesture writes an oscillator
\* again.
SilentAfterClear == silenced = "done" => buffer # "sound"

\* C22: a clearCanvas that comes after a clearCanvas, no gesture having
\* written an oscillator in between, leaves the oscillator buffers as the
\* first one left them, whether or not a block was processed in between.
SecondClearChangesNothing ==
    [][(pcC = "clear" /\ pcC' = "idle" /\ silenced \in {"requested", "done"})
            => oscillatorPools' = oscillatorPools]_vars

\* C23: the writes of the control thread (activateOscillator, the influence
\* updates, the reset loop of clearCanvas) leave the oscillators of the
\* front buffer unchanged.
FrontUnchangedByControl ==
    [][(pcC \in {"activate", "influence", "clear"} /\ pcC' = "idle")
            => oscillatorPools'[frontBufferIndex] = oscillatorPools[frontBufferIndex]]_vars

\* C24: prepareToPlay leaves both oscillator buffers cleared and the pool
\* bookkeeping in agreement with them: no slot is sounding or held, every
\* slot is on the free list and no oscillator write is pending.
PrepareToPlayStep == pcC = "idle" /\ pcC' = "idle" /\ sampleRate' # sampleRate

PreparedEngineWellDefined ==
    [][PrepareToPlayStep =>
            /\ \A b \in Buffers : \A i \in Slots : oscillatorPools'[b][i] = DefaultOscillator
            /\ \A i \in Slots : ~StateIsActive(oscillatorStates'[i])
            /\ \A i \in Slots : ~oscillatorStates'[i].inUse]_vars

\* C25: a processBlock that found the engine inactive has handed back a
\* block of zeros, whatever the buffer held before.
InactiveBlockIsSilent == returnedInactive => buffer = "zero"

\* an inactive block while an oscillator of the front buffer would sound
InactiveOverSoundingPool ==
    /\ returnedInactive
    /\ buffer = "zero"
    /\ \E i \in Slots :
         envelopedSample(oscillatorStates[i], oscillatorPools[frontBufferIndex][i]) # 0

\* C26: updateStroke without a stroke in progress starts one that holds the
\* point it was called with, and updateStroke with a stroke in progress adds
\* its point to that stroke.
UpdateStartsOrAppends ==
    [][\A point \in Points :
          UpdateStroke(point) =>
              /\ currentStroke'
              /\ IF ~currentStroke
                 THEN /\ strokePoints' = <<point.y>>
                      /\ nextStrokeId' = nextStrokeId + 1
                      /\ pcC' = "idle"
                 ELSE /\ strokePoints' = Append(strokePoints, point.y)
                      /\ nextStrokeId' = nextStrokeId]_vars

\* the first stroke of the engine, two operations after construction, with
\* two points
AutoStartedStrokeGrown ==
    /\ ctlOps = 2
    /\ currentStroke
    /\ Len(strokePoints) = 2
    /\ nextStrokeId = FirstStrokeId + 1

\* C27: every frequency held by a lifecycle state or by an oscillator lies
\* between 20 Hz and 20000 Hz, whatever range setFrequencyRange was given
\* and whatever the position of the stroke point.
FrequenciesWithinLimits ==
    /\ \A i \in Slots :
         oscillatorStates[i].targetFrequency \in MinFrequencyHz .. MaxFrequencyHz
    /\ \A b \in Buffers : \A i \in Slots :
         oscillatorPools[b][i].frequency \in MinFrequencyHz .. MaxFrequencyHz

\* C28: every target amplitude held by a lifecycle state or by an
\* oscillator lies between 0 and 1, whatever pressure the stroke points
\* carried.
AmplitudesWithinUnit ==
    /\ \A i \in Slots : oscillatorStates[i].targetAmplitude \in 0 .. 100
    /\ \A b \in Buffers : \A i \in Slots : oscillatorPools[b][i].targetAmplitude \in 0 .. 100

\* C29: while it processes a block the audio thread reaches no stroke,
\* neither the stroke of the gesture in progress nor one stored in a canvas
\* region.
AudioReachesNoStroke == canvasScan \in {NoIndex, 0}

\* C30: beginStroke creates a stroke holding its point, every updateStroke
\* on it adds one point, and endStroke stores the stroke, finalized and with
\* the points it had, in exactly one canvas region, created if absent, and
\* leaves no current stroke; a stored stroke is never changed afterwards,
\* it can only be removed with all regions.
FinalizedStroke ==
    [strokeId |-> nextStrokeId - 1, size |-> Len(strokePoints), isFinalized |-> TRUE]

StoredStrokesKept ==
    \/ canvasRegions' = NoRegions
    \/ \A k \in Cells :
         /\ canvasRegions[k].present => canvasRegions'[k].present
         /\ Len(canvasRegions'[k].strokes) >= Len(canvasRegions[k].strokes)
         /\ \A n \in 1 .. Len(canvasRegions[k].strokes) :
              canvasRegions'[k].strokes[n] = canvasRegions[k].strokes[n]

StrokeLifecycle ==
    [][/\ \A point \in Points :
            BeginStroke(point) => currentStroke' /\ strokePoints' = <<point.y>>
       /\ \A point \in Points :
            (UpdateStroke(point) /\ currentStroke) =>
                currentStroke' /\ strokePoints' = Append(strokePoints, point.y)
       /\ (EndStroke /\ currentStroke) =>
            /\ ~currentStroke'
            /\ strokePoints' = <<>>
            /\ \E k \in Cells :
                 /\ canvasRegions'[k] =
                        [present |-> TRUE,
                         strokes |-> Append(canvasRegions[k].strokes, FinalizedStroke)]
                 /\ \A j \in Cells \ {k} : canvasRegions'[j] = canvasRegions[j]
       /\ StoredStrokesKept]_vars

\* two gestures ended: their strokes are stored, one of them with two
\* points, and no stroke is in progress
StoredStrokesAfterGestures ==
    /\ ~currentStroke
    /\ RegionStrokes(0) = 2
    /\ \E k \in Cells : \E n \in 1 .. Len(canvasRegions[k].strokes) :
         /\ canvasRegions[k].strokes[n].size = 2
         /\ canvasRegions[k].strokes[n].isFinalized

\* C31: the position that frequencyToCanvasY gives for the frequency of a
\* position y of the canvas is y, up to the rounding of the frequency, on
\* the logarithmic and on the linear scale.
Distance(a, b) == IF a >= b THEN a - b ELSE b - a

\* the frequency of position y is a whole number of Hz before rounding
WholeHz(y) ==
    LET height == canvasTop - canvasBottom
        steps == clampedY(y)
    IN  IF useLogFrequencyScale
        THEN IntPow(canvasYToFrequency(y), height)
                = IntPow(minFrequency, height - steps) * IntPow(maxFrequency, steps)
        ELSE (steps * (maxFrequency - minFrequency)) % height = 0

MappingRoundTrip ==
    roundTrip.stage = "back" =>
        /\ Distance(roundTrip.back, roundTrip.y) <= MapTolerance
        /\ WholeHz(roundTrip.y) => roundTrip.back = roundTrip.y

\* a position inside the canvas, on the logarithmic scale, whose frequency
\* lies strictly between the two limits and is mapped back to it exactly
LogInteriorRoundTrip ==
    /\ roundTrip.stage = "back"
    /\ useLogFrequencyScale
    /\ roundTrip.frequency > minFrequency
    /\ roundTrip.frequency < maxFrequency
    /\ roundTrip.back = roundTrip.y

\* C32: a slot that the audio thread renders with the parameters of its
\* latest update is rendered with the same parameters after every swap: no
\* swap brings the oscillator of an earlier update back to the front
\* (clearCanvas, which is meant to replace what is rendered, set aside).
LatestParameters(i) ==
    [frequency |-> oscillatorStates[i].targetFrequency,
     targetAmplitude |-> jlimit(0, 100, oscillatorStates[i].targetAmplitude)]

SwapKeepsLatest ==
    [][(frontBufferIndex' # frontBufferIndex /\ silenced = "no") =>
          \A i \in Slots :
              (/\ StateIsActive(oscillatorStates[i])
               /\ oscillatorPools[frontBufferIndex][i] = LatestParameters(i))
                  => oscillatorPools'[frontBufferIndex'][i] = LatestParameters(i)]_vars

\* C33: a swap request is applied in the end: whenever bufferSwapPending
\* is set, a later processBlock clears it, whether the engine is active or
\* not in the blocks that follow.
SwapEventuallyApplied == bufferSwapPending ~> ~bufferSwapPending

\* C34: optimizeOscillatorPool leaves every oscillator at the index of its
\* slot: after it has run, each position of the buffer holds the oscillator
\* it held before, or that oscillator reset, never the oscillator of
\* another index.
OptimizeKeepsSlots ==
    [][(pcA = "render" /\ pcA' = "idle") =>
          \A b \in Buffers : \A i \in Slots :
              \/ oscillatorPools'[b][i] = oscillatorPools[b][i]
              \/ oscillatorPools'[b][i] = OscReset(oscillatorPools[b][i])]_vars

\* C35: with every slot in Attack or Sustain, the slot that a steal would
\* take, the one least recently activated or updated by a gesture, is the
\* same before and after each pass of the sample loop.
AllSounding == \A i \in Slots : oscillatorStates[i].envelopePhase \in {"Attack", "Sustain"}

RenderKeepsStealOrder ==
    [][(pcA = "render" /\ sample' = sample + 1 /\ AllSounding /\ AllSounding')
            => findBestOscillatorForReplacement' = findBestOscillatorForReplacement]_vars

\* C36: between operations the buckets of the spatial grid together hold
\* no slot index twice and no index of a slot that is not in use.
RECURSIVE GridOccurrences(_, _)
GridOccurrences(i, c) ==
    IF c >= GridCells THEN 0 ELSE CountIn(spatialGrid[c], i) + GridOccurrences(i, c + 1)

GridHoldsSlotsInUseOnce ==
    pcC = "idle" =>
        \A i \in Slots :
            /\ GridOccurrences(i, 0) <= 1
            /\ GridOccurrences(i, 0) = 1 => oscillatorStates[i].inUse

\* C37: getRegionKey gives two different region cells two different keys,
\* cells with negative coordinates included.  Stated for the cells whose
\* regionX is not negative, where the shift is defined; regionY is any.
RegionKeyInjective ==
    (/\ regionKeys.stage = "done"
     /\ regionKeys.a # regionKeys.b
     /\ regionKeys.a[1] >= 0
     /\ regionKeys.b[1] >= 0)
        => regionKeys.keyA # regionKeys.keyB

\* C38: beginStroke with a stroke in progress first ends that stroke, which
\* is stored finalized and with all its points in one canvas region, and
\* then starts a stroke with an id no other stroke has, holding exactly the
\* begin point; endStroke without a stroke in progress changes nothing of
\* the engine.
BeginEndsOpenStroke ==
    [][/\ \A point \in Points :
            (BeginStroke(point) /\ currentStroke) =>
                /\ \E k \in Cells :
                     /\ canvasRegions'[k] =
                            [present |-> TRUE,
                             strokes |-> Append(canvasRegions[k].strokes, FinalizedStroke)]
                     /\ \A j \in Cells \ {k} : canvasRegions'[j] = canvasRegions[j]
                /\ currentStroke'
                /\ strokePoints' = <<point.y>>
                /\ nextStrokeId' = nextStrokeId + 1
                /\ \A k \in Cells : \A n \in 1 .. Len(canvasRegions'[k].strokes) :
                     canvasRegions'[k].strokes[n].strokeId < nextStrokeId' - 1
       /\ (EndStroke /\ ~currentStroke) =>
            UNCHANGED <<poolVars, swapVars, isActive, spatialGrid, currentStroke,
                        blockCounter, now, audioVars, ctlVars, allocVia,
                        swappedThisBlock, rideAlong, strokeVars, canvasScan, outVars,
                        silenced, configVars>>]_vars

\* three operations made: a stroke begun and grown to two points was
\* interrupted by beginStroke, it is stored and the new stroke holds one point
InterruptedStrokeStored ==
    /\ ctlOps = 3
    /\ currentStroke
    /\ Len(strokePoints) = 1
    /\ nextStrokeId = FirstStrokeId + 2
    /\ \E k \in Cells : \E n \in 1 .. Len(canvasRegions[k].strokes) :
         canvasRegions[k].strokes[n] =
             [strokeId |-> FirstStrokeId, size |-> 2, isFinalized |-> TRUE]

\* C39 as stated: while the plug-in is paused every processBlock call gives
\* a cleared buffer and processes no command, and the commands pushed in
\* the meantime, those of pauseAudioProcessing included, are all processed
\* at the first block after resumeAudioProcessing before it renders.
HeldOver(queue) == {n \in 1 .. Len(queue) : queue[n].whilePaused}

====
